---- MODULE Spec2Model ----
(***************************************************************************)
(* Client-side session state machines of the terminal chat UI.             *)
(*                                                                         *)
(*   StreamingChat  (src/browser_agent_ui/README.md, lines 174-512):       *)
(*       WebSocket chat: transcript, loading flag, browser viewport,       *)
(*       project ledger, reconnecting socket.                              *)
(*   App / TerminalChat / VNCBrowserView  (src/frontend/src/App.js):       *)
(*       REST chat: transcript, history load, viewport, ledger, session.   *)
(*                                                                         *)
(* A page renders one of the two root components; `root` records which.    *)
(* Every handler is one action; a fetch is two steps (the network settles  *)
(* it, then the awaiting continuation runs).                               *)
(***************************************************************************)
EXTENDS Integers, Sequences, FiniteSets, TLC

(***************************************************************************)
(* Bounds of the model                                                     *)
(***************************************************************************)
MaxTurns == 2
MaxUrlChanges == 1
MaxInFlight == 1
MaxProjects == 2
MaxSessions == 2

(***************************************************************************)
(* JavaScript values: a tagged record per value, so that undefined, null,  *)
(* booleans, strings and objects can sit in the same field.                *)
(***************************************************************************)
undefined == [t |-> "undefined"]
null == [t |-> "null"]
Str(s) == [t |-> "string", v |-> s]
Bool(b) == [t |-> "boolean", v |-> b]
Obj(o) == [t |-> "object", v |-> o]

\* JavaScript truthiness (the test made by `if (x)`, `x && ...`, `x || ...`)
Truthy(x) ==
  CASE x.t = "undefined" -> FALSE
    [] x.t = "null" -> FALSE
    [] x.t = "boolean" -> x.v
    [] x.t = "string" -> x.v # ""
    [] x.t = "object" -> TRUE

(***************************************************************************)
(* Text typed by the user: a sequence of characters.                       *)
(***************************************************************************)
Whitespace == {" "}

RECURSIVE TrimStart(_)
TrimStart(s) ==
  IF s # <<>> /\ Head(s) \in Whitespace THEN TrimStart(Tail(s)) ELSE s

RECURSIVE TrimEnd(_)
TrimEnd(s) ==
  IF s # <<>> /\ s[Len(s)] \in Whitespace
  THEN TrimEnd(SubSeq(s, 1, Len(s) - 1))
  ELSE s

\* String.prototype.trim
Trim(s) == TrimEnd(TrimStart(s))

\* what the user can have in the input box
Inputs == {<<>>, <<" ">>, <<" ", "a", " ">>}

(***************************************************************************)
(* Inbound frames of the WebSocket                                         *)
(***************************************************************************)
TodoApp == [project_name |-> "todo-app", template |-> "react-express",
            files_created |-> <<"a", "b">>]

BlogApp == [project_name |-> "blog", template |-> "next",
            files_created |-> <<"index">>]

\* decoded ai_response envelopes (README "Incoming" format); optional fields
\* that are absent from the JSON read as undefined
AiResponses ==
  { [type |-> "ai_response", content |-> Str("Hello"), provider |-> Str("openai"),
     model |-> Str("gpt-4"), browser_action |-> undefined, screenshot |-> undefined,
     project_created |-> undefined, needs_browser |-> undefined],
    [type |-> "ai_response", content |-> Str("Opened"), provider |-> Str("claude"),
     model |-> Str("claude-3"), browser_action |-> Obj("navigate"),
     screenshot |-> Str("png1"), project_created |-> undefined,
     needs_browser |-> Bool(TRUE)],
    [type |-> "ai_response", content |-> Str("Done"), provider |-> Str("openai"),
     model |-> Str("gpt-4"), browser_action |-> undefined, screenshot |-> undefined,
     project_created |-> Obj(TodoApp), needs_browser |-> undefined],
    [type |-> "ai_response", content |-> Str(""), provider |-> Str("openai"),
     model |-> Str("gpt-4"), browser_action |-> null, screenshot |-> Str("png2"),
     project_created |-> Obj(BlogApp), needs_browser |-> Bool(FALSE)] }

\* a decodable frame of another type
StatusFrame == [type |-> "status"]

\* a frame whose text is not JSON: JSON.parse throws
Malformed == [type |-> "<malformed>"]

Frames == AiResponses \cup {StatusFrame, Malformed}

(***************************************************************************)
(* WebSocket instances                                                     *)
(***************************************************************************)
Urls == {"ws://a", "ws://b"}

\* every reconnect chain holds one socket; a URL change starts one more chain
MaxSockets == MaxUrlChanges + 2
SocketIds == 1..MaxSockets

\* setTimeout(connectWebSocket, 3000): the delay in milliseconds
ReconnectDelay == 3000

FreeSocket == [readyState |-> "FREE", url |-> ""]

(***************************************************************************)
(* REST collaborators of App / TerminalChat                                *)
(***************************************************************************)
\* JavaScript a || b
Or(a, b) == IF Truthy(a) THEN a ELSE b

\* JavaScript a !== null
NotNull(a) == Bool(a.t # "null")

BrowserUse == [success |-> TRUE, task |-> "open page"]

\* bodies of a 2xx answer of POST /api/chat; a key that is absent reads as
\* undefined
ChatResponses ==
  { [response |-> Str("Hello"), screenshot |-> undefined, needs_browser |-> undefined,
     browser_action |-> undefined, project_created |-> undefined,
     browser_use_result |-> undefined, vnc_url |-> undefined,
     conversation_continues |-> undefined],
    [response |-> Str("Hi"), screenshot |-> null, needs_browser |-> Bool(FALSE),
     browser_action |-> null, project_created |-> null,
     browser_use_result |-> null, vnc_url |-> null,
     conversation_continues |-> Bool(TRUE)],
    [response |-> Str("Opened"), screenshot |-> Str("png1"), needs_browser |-> Bool(TRUE),
     browser_action |-> Obj("navigate"), project_created |-> null,
     browser_use_result |-> Obj(BrowserUse), vnc_url |-> Str("http://vnc"),
     conversation_continues |-> Bool(FALSE)],
    [response |-> Str("Done"), screenshot |-> Str("png2"), needs_browser |-> Bool(FALSE),
     browser_action |-> null, project_created |-> Obj(TodoApp),
     browser_use_result |-> null, vnc_url |-> null,
     conversation_continues |-> Bool(TRUE)] }

\* entries of a 2xx answer of GET /api/chat-history/{session_id}
HistoryEntry1 ==
  [message |-> <<"x">>, timestamp |-> 101, response |-> Str("Hello"),
   screenshot |-> null, browser_action |-> null, project_created |-> null,
   browser_use_result |-> null, vnc_url |-> null,
   conversation_continues |-> Bool(TRUE)]

HistoryEntry2 ==
  [message |-> <<"y">>, timestamp |-> 102, response |-> Str("Done"),
   screenshot |-> Str("png1"), browser_action |-> Obj("navigate"),
   project_created |-> Obj(BlogApp), browser_use_result |-> undefined,
   vnc_url |-> undefined, conversation_continues |-> Bool(FALSE)]

Histories == {<<>>, <<HistoryEntry1, HistoryEntry2>>}

\* how a fetch can settle: a 2xx answer, another status, or a rejected promise
FetchErrors == {"http_error", "network_error"}

IdleReq == [state |-> "idle", data |-> undefined, body |-> undefined]

VARIABLES
  root,          \* which root component the page renders
  clock,         \* Date.now()
  \* ---- StreamingChat ----
  scMounted,     \* the component is mounted
  websocketUrl,  \* prop websocketUrl
  urlChanges,    \* number of times the prop changed
  connected,     \* useState connected
  wsRef,         \* wsRef.current: a socket id
  sockets,       \* the WebSocket instances created and not yet garbage
  timers,        \* pending setTimeout(connectWebSocket, 3000) callbacks, oldest first
  scMessages,    \* useState messages
  scInput,       \* useState input
  scLoading,     \* useState loading
  scShowBrowser, \* useState showBrowser
  scProjects,    \* useState projects
  wire,          \* frames sent by the backend and not yet delivered
  scSent,        \* request envelopes handed to WebSocket.send
  backend,       \* chat_message requests the backend has received and not answered
  lastError,     \* Date.now() of the last exception that escaped ws.onmessage (0: none)
  \* ---- App ----
  sessionId,     \* useState sessionId (generateSessionId: a fresh id each call)
  wsEndpoint,    \* useState wsEndpoint
  screenshot,    \* useState screenshot
  appLoading,    \* useState loading of App
  error,         \* useState error
  appShowBrowser,\* useState showBrowser of App
  appProjects,   \* useState projects of App
  browserUseResult, \* useState browserUseResult
  createReq,     \* the create-session fetch of autoStartSession / createSession
  vncUrl,        \* useState vncUrl
  vncReq,        \* the vnc-info fetch of loadVNCInfo
  isEmbedded,    \* useState isEmbedded of VNCBrowserView
  connectionStatus, \* useState connectionStatus of VNCBrowserView
  crashed,       \* an updater threw while rendering: React unmounted the tree
  \* ---- TerminalChat ----
  tcMessages,    \* useState messages
  tcInput,       \* useState input
  tcLoading,     \* useState loading
  chatReq,       \* the POST /api/chat of the running sendMessage
  historyReqs,   \* the running loadChatHistory calls, oldest first
  \* ---- renderMessage ----
  content,       \* the text handed to renderMessage
  rendered       \* what the three copies of renderMessage returned for it (undefined: not called)

scConnVars == <<scMounted, websocketUrl, urlChanges, connected, wsRef, sockets, timers>>
scChatVars == <<scMessages, scInput, scLoading, scShowBrowser, scProjects, wire, scSent, backend,
               lastError>>
scVars == <<scConnVars, scChatVars>>

appVars == <<sessionId, wsEndpoint, screenshot, appLoading, error, appShowBrowser,
             appProjects, browserUseResult, createReq, vncUrl, vncReq, isEmbedded,
             connectionStatus, crashed>>
tcVars == <<tcMessages, tcInput, tcLoading, chatReq, historyReqs>>

renderVars == <<content, rendered>>

vars == <<root, clock, scVars, appVars, tcVars, renderVars>>

(***************************************************************************)
(* StreamingChat: the WebSocket effect                                     *)
(***************************************************************************)
\* a closed socket nothing refers to any more is garbage
Collect(socks, ref) ==
  [s \in SocketIds |->
     IF socks[s].readyState = "CLOSED" /\ s # ref THEN FreeSocket ELSE socks[s]]

NewSocketId(socks) == CHOOSE s \in SocketIds :
  /\ socks[s].readyState = "FREE"
  /\ \A r \in SocketIds : socks[r].readyState = "FREE" => s <= r

CanConnect(socks) == \E s \in SocketIds : Collect(socks, 0)[s].readyState = "FREE"

\* WebSocket.close(): a connecting or open socket starts closing
CloseCall(socks, s) ==
  IF socks[s].readyState \in {"CONNECTING", "OPEN"}
  THEN [socks EXCEPT ![s].readyState = "CLOSING"]
  ELSE socks

\* connectWebSocket of the effect run with websocketUrl = url:
\* wsRef.current = new WebSocket(url)
connectWebSocket(socks, url) ==
  LET n == NewSocketId(Collect(socks, 0))
  IN  [sockets |-> Collect([socks EXCEPT ![n] = [readyState |-> "CONNECTING", url |-> url]], n),
       wsRef |-> n]

\* variant: onclose that schedules no reconnect
ScheduleReconnectNever(tms, url) == tms

\* the timers after ws.onclose of a socket made with `url`
ScheduleReconnect(tms, url) == Append(tms, [delay |-> ReconnectDelay, url |-> url])

\* the effect cleanup: if (wsRef.current) wsRef.current.close()
Cleanup(socks, ref) == CloseCall(socks, ref)

\* frames still in flight to a socket are lost when it stops being open
DropFrames(w, s) == SelectSeq(w, LAMBDA m : m.sock # s)

\* ws.onopen
WsOpen(s) ==
  /\ root = "StreamingChat"
  /\ sockets[s].readyState = "CONNECTING"
  /\ sockets' = [sockets EXCEPT ![s].readyState = "OPEN"]
  /\ connected' = IF scMounted THEN TRUE ELSE connected
  /\ UNCHANGED <<appVars, tcVars, root, renderVars, clock, scMounted, websocketUrl, urlChanges, wsRef, timers,
                 scChatVars>>

\* variant: onclose that also gives up the request under way
WsCloseGivesUp(s) ==
  /\ root = "StreamingChat"
  /\ sockets[s].readyState \in {"CONNECTING", "OPEN", "CLOSING"}
  /\ sockets' = Collect([sockets EXCEPT ![s].readyState = "CLOSED"], wsRef)
  /\ connected' = IF scMounted THEN FALSE ELSE connected
  /\ timers' = ScheduleReconnect(timers, sockets[s].url)
  /\ wire' = DropFrames(wire, s)
  /\ backend' = DropFrames(backend, s)
  /\ scLoading' = FALSE
  /\ UNCHANGED <<appVars, tcVars, root, renderVars, clock, scMounted, websocketUrl, urlChanges, wsRef,
                 scMessages, scInput, scShowBrowser, scProjects, scSent, lastError>>

\* ws.onclose: the connection failed, was dropped, or finished closing
WsClose(s) ==
  /\ root = "StreamingChat"
  /\ sockets[s].readyState \in {"CONNECTING", "OPEN", "CLOSING"}
  /\ sockets' = Collect([sockets EXCEPT ![s].readyState = "CLOSED"], wsRef)
  /\ connected' = IF scMounted THEN FALSE ELSE connected
  /\ timers' = ScheduleReconnect(timers, sockets[s].url)
  /\ wire' = DropFrames(wire, s)
  /\ UNCHANGED <<appVars, tcVars, root, renderVars, clock, scMounted, websocketUrl, urlChanges, wsRef,
                 scMessages, scInput, scLoading, scShowBrowser, scProjects, scSent, lastError>>
  /\ backend' = DropFrames(backend, s)

\* the oldest reconnect timer fires (all have the same delay): connectWebSocket
\* of the effect run that made it
TimerFire ==
  /\ root = "StreamingChat"
  /\ timers # <<>>
  /\ CanConnect(sockets)
  /\ LET c == connectWebSocket(sockets, Head(timers).url)
     IN  /\ sockets' = c.sockets
         /\ wsRef' = c.wsRef
  /\ timers' = Tail(timers)
  /\ UNCHANGED <<appVars, tcVars, root, renderVars, clock, scMounted, websocketUrl, urlChanges, connected,
                 scChatVars>>

\* the prop websocketUrl changes: effect cleanup, then the effect again
UrlChange(u) ==
  /\ root = "StreamingChat"
  /\ scMounted
  /\ u # websocketUrl
  /\ urlChanges < MaxUrlChanges
  /\ CanConnect(Cleanup(sockets, wsRef))
  /\ websocketUrl' = u
  /\ urlChanges' = urlChanges + 1
  /\ LET c == connectWebSocket(Cleanup(sockets, wsRef), u)
     IN  /\ sockets' = c.sockets
         /\ wsRef' = c.wsRef
  /\ wire' = DropFrames(wire, wsRef)
  /\ UNCHANGED <<appVars, tcVars, root, renderVars, clock, scMounted, connected, timers,
                 scMessages, scInput, scLoading, scShowBrowser, scProjects, scSent, backend, lastError>>

\* the component is disposed: effect cleanup
Unmount ==
  /\ root = "StreamingChat"
  /\ scMounted
  /\ scMounted' = FALSE
  /\ sockets' = Cleanup(sockets, wsRef)
  /\ wire' = DropFrames(wire, wsRef)
  /\ UNCHANGED <<appVars, tcVars, root, renderVars, clock, websocketUrl, urlChanges, connected, wsRef, timers,
                 scMessages, scInput, scLoading, scShowBrowser, scProjects, scSent, backend, lastError>>

(***************************************************************************)
(* StreamingChat: the transcript                                           *)
(***************************************************************************)
\* a turn that has not received a response
Pending(m) == m.response = undefined

NumPending(msgs) == Cardinality({i \in 1..Len(msgs) : Pending(msgs[i])})

\* variant: the updater of the integration example (src/unnamed/part_000,
\* lines 1188-1198), which copies response, provider and model only
ApplyAiResponseShort(prev, data) ==
  IF Len(prev) > 0
  THEN [prev EXCEPT ![Len(prev)] =
          [@ EXCEPT !.response = data.content,
                    !.provider = data.provider,
                    !.model = data.model]]
  ELSE prev

\* the updater passed to setMessages by handleWebSocketMessage
ApplyAiResponse(prev, data) ==
  IF Len(prev) > 0 /\ prev[Len(prev)].type = "user"
  THEN [prev EXCEPT ![Len(prev)] =
          [@ EXCEPT !.response = data.content,
                    !.provider = data.provider,
                    !.model = data.model,
                    !.browser_action = data.browser_action,
                    !.screenshot = data.screenshot,
                    !.project_created = data.project_created,
                    !.needs_browser = data.needs_browser]]
  ELSE prev

\* variant: setShowBrowser(data.needs_browser), as App.handleBrowserToggle does
ScToggleBrowserFollows(show, data) == Truthy(data.needs_browser)

\* variant: a screenshot shows the panel as well
ScToggleBrowserOnScreenshot(show, data) ==
  IF Truthy(data.needs_browser) \/ Truthy(data.screenshot) THEN TRUE ELSE show

\* if (data.needs_browser) setShowBrowser(true)
ScToggleBrowser(show, data) == IF Truthy(data.needs_browser) THEN TRUE ELSE show

\* variant: the new record is put first
ScRecordProjectFirst(prev, data) ==
  IF Truthy(data.project_created) THEN <<data.project_created.v>> \o prev ELSE prev

\* if (data.project_created) setProjects(prev => [...prev, data.project_created])
ScRecordProject(prev, data) ==
  IF Truthy(data.project_created) THEN Append(prev, data.project_created.v) ELSE prev

\* the backend writes a frame to an open socket
BackendSend(s, f) ==
  /\ root = "StreamingChat"
  /\ sockets[s].readyState = "OPEN"
  /\ Len(wire) < MaxInFlight
  /\ (f.type = "ai_response" /\ Truthy(f.project_created))
       => Len(scProjects) < MaxProjects
  /\ wire' = Append(wire, [sock |-> s, frame |-> f, re |-> 0])
  /\ UNCHANGED <<appVars, tcVars, root, renderVars, clock, scConnVars, scMessages, scInput, scLoading,
                 scShowBrowser, scProjects, scSent, backend, lastError>>

\* a backend that answers the oldest chat_message it has received with one
\* ai_response, on the connection the request came in on; `re` is the id of the
\* turn whose request is answered (0: a frame no request asked for); an answer
\* written to a connection that is no longer open is lost
BackendReply(f) ==
  /\ root = "StreamingChat"
  /\ backend # <<>>
  /\ f.type = "ai_response"
  /\ Len(wire) < MaxInFlight
  /\ Truthy(f.project_created) => Len(scProjects) < MaxProjects
  /\ LET r == Head(backend)
     IN  wire' = IF sockets[r.sock].readyState = "OPEN"
                 THEN Append(wire, [sock |-> r.sock, frame |-> f, re |-> r.turn])
                 ELSE wire
  /\ backend' = Tail(backend)
  /\ UNCHANGED <<appVars, tcVars, root, renderVars, clock, scConnVars, scMessages, scInput, scLoading,
                 scShowBrowser, scProjects, scSent, lastError>>

\* variant: a decoder that yields an ai_response without fields for text that
\* is not JSON
JsonParseLenient(payload) ==
  [threw |-> FALSE,
   data |-> IF payload = Malformed
            THEN [type |-> "ai_response", content |-> undefined, provider |-> undefined,
                  model |-> undefined, browser_action |-> undefined,
                  screenshot |-> undefined, project_created |-> undefined,
                  needs_browser |-> undefined]
            ELSE payload]

\* JSON.parse(event.data): throws a SyntaxError for text that is not JSON
JsonParse(payload) ==
  IF payload = Malformed
  THEN [threw |-> TRUE, data |-> undefined]
  ELSE [threw |-> FALSE, data |-> payload]

\* ws.onmessage with handleWebSocketMessage, for the oldest frame in flight;
\* an exception of JSON.parse leaves the handler before anything is set
OnMessage ==
  /\ root = "StreamingChat"
  /\ wire # <<>>
  /\ wire' = Tail(wire)
  /\ LET parsed == JsonParse(Head(wire).frame)
         data == parsed.data
     IN  IF parsed.threw
         THEN /\ lastError' = clock
              /\ UNCHANGED <<scMessages, scLoading, scShowBrowser, scProjects>>
         ELSE /\ lastError' = lastError
              /\ IF scMounted /\ data.type = "ai_response"
                 THEN /\ scMessages' = ApplyAiResponse(scMessages, data)
                      /\ scLoading' = FALSE
                      /\ scShowBrowser' = ScToggleBrowser(scShowBrowser, data)
                      /\ scProjects' = ScRecordProject(scProjects, data)
                 ELSE UNCHANGED <<scMessages, scLoading, scShowBrowser, scProjects>>
  /\ UNCHANGED <<appVars, tcVars, root, renderVars, clock, scConnVars, scInput, scSent, backend>>

\* onChange of the input box (the box is disabled while loading or disconnected)
ScSetInput(v) ==
  /\ root = "StreamingChat"
  /\ scMounted
  /\ ~(scLoading \/ ~connected)
  /\ v # scInput
  /\ scInput' = v
  /\ UNCHANGED <<appVars, tcVars, root, renderVars, clock, scConnVars, scMessages, scLoading, scShowBrowser,
                 scProjects, wire, lastError, scSent, backend>>

\* variant: sendMessage without setLoading(true)
ScLoadingOnSendForgotten == scLoading

\* setLoading(true) in StreamingChat.sendMessage
ScLoadingOnSend == TRUE

\* const [browserSession, setBrowserSession] = useState(null); the setter is
\* never called
browserSession == null

\* browserSession?.sessionId || 'default'
SessionId == IF browserSession = null THEN "default" ELSE browserSession.sessionId

\* variant: a guard that looks at the raw input
ScCanSendUntrimmed == ~(scInput = <<>> \/ scLoading \/ ~connected)

\* the guard of StreamingChat.sendMessage:
\* if (!input.trim() || loading || !connected) return
ScCanSend == ~(Trim(scInput) = <<>> \/ scLoading \/ ~connected)

\* StreamingChat.sendMessage
ScSendMessage ==
  /\ root = "StreamingChat"
  /\ scMounted
  /\ ScCanSend
  /\ clock <= MaxTurns
  /\ LET userMessage == [type |-> "user", content |-> Trim(scInput),
                         timestamp |-> clock, id |-> clock,
                         response |-> undefined, provider |-> undefined,
                         model |-> undefined, browser_action |-> undefined,
                         screenshot |-> undefined, project_created |-> undefined,
                         needs_browser |-> undefined]
         messagePayload == [type |-> "chat_message", content |-> userMessage.content,
                            provider |-> "openai", model |-> "gpt-4",
                            use_agents |-> TRUE, session_id |-> SessionId]
     IN  /\ scMessages' = Append(scMessages, userMessage)
         /\ scSent' = IF sockets[wsRef].readyState = "OPEN"
                      THEN Append(scSent, messagePayload)
                      ELSE scSent
         \* what was sent reaches the backend over the socket it was sent on
         /\ backend' = IF sockets[wsRef].readyState = "OPEN"
                       THEN Append(backend, [sock |-> wsRef, turn |-> userMessage.id])
                       ELSE backend
  /\ scLoading' = ScLoadingOnSend
  /\ scInput' = <<>>
  /\ clock' = clock + 1
  /\ UNCHANGED <<appVars, tcVars, root, renderVars, scConnVars, scShowBrowser, scProjects, wire, lastError>>

\* variant: a button in the header that shows and hides the panel
ScMinimizeToggle ==
  /\ root = "StreamingChat"
  /\ scMounted
  /\ scShowBrowser' = ~scShowBrowser
  /\ UNCHANGED <<appVars, tcVars, root, renderVars, clock, scConnVars, scMessages, scInput, scLoading,
                 scProjects, wire, lastError, scSent, backend>>

\* the Minimize button of BrowserView (rendered while showBrowser)
ScMinimize ==
  /\ root = "StreamingChat"
  /\ scMounted
  /\ scShowBrowser
  /\ scShowBrowser' = FALSE
  /\ UNCHANGED <<appVars, tcVars, root, renderVars, clock, scConnVars, scMessages, scInput, scLoading,
                 scProjects, wire, lastError, scSent, backend>>

(***************************************************************************)
(* VNCBrowserView, as App mounts it                                        *)
(***************************************************************************)
\* the props of <VNCBrowserView vnc_url={vncUrl} browser_use_result=
\* {browserUseResult} />: wsEndpoint is not passed and autoShow has its default
VncProps == [wsEndpoint |-> undefined, autoShow |-> TRUE]

\* checkConnection of VNCBrowserView
checkConnection(endpoint) == IF Truthy(endpoint) THEN "connected" ELSE "disconnected"

\* the state of VNCBrowserView after App rendered with showBrowser = isShown,
\* having rendered with wasShown before: {showBrowser && <VNCBrowserView/>}
\* mounts the component when the panel appears, which starts it from its
\* useState defaults and runs its effects; while it is unmounted the two
\* variables keep the values it had last, and nothing reads them
VncRender(wasShown, isShown, emb, status) ==
  IF Truthy(isShown) /\ ~Truthy(wasShown)
  THEN [isEmbedded |-> VncProps.autoShow,
        connectionStatus |-> checkConnection(VncProps.wsEndpoint)]
  ELSE [isEmbedded |-> emb, connectionStatus |-> status]

\* variant: a toggle that mounts the view anew
VncToggleRemount ==
  /\ root = "App" /\ ~crashed
  /\ Truthy(appShowBrowser)
  /\ isEmbedded' = ~isEmbedded
  /\ connectionStatus' = "connecting"
  /\ UNCHANGED <<scVars, tcVars, root, renderVars, clock, sessionId, wsEndpoint, screenshot,
                 appLoading, error, appShowBrowser, appProjects, browserUseResult,
                 createReq, vncUrl, vncReq, crashed>>

\* the toggle button of the header: setIsEmbedded(!isEmbedded)
VncToggle ==
  /\ root = "App" /\ ~crashed
  /\ Truthy(appShowBrowser)
  /\ isEmbedded' = ~isEmbedded
  /\ UNCHANGED <<scVars, tcVars, root, renderVars, clock, sessionId, wsEndpoint, screenshot,
                 appLoading, error, appShowBrowser, appProjects, browserUseResult,
                 createReq, vncUrl, vncReq, connectionStatus, crashed>>

\* the Expand View button of the minimized view: setIsEmbedded(true)
VncExpandView ==
  /\ root = "App" /\ ~crashed
  /\ Truthy(appShowBrowser)
  /\ ~isEmbedded
  /\ isEmbedded' = TRUE
  /\ UNCHANGED <<scVars, tcVars, root, renderVars, clock, sessionId, wsEndpoint, screenshot,
                 appLoading, error, appShowBrowser, appProjects, browserUseResult,
                 createReq, vncUrl, vncReq, connectionStatus, crashed>>

\* a tick of setInterval(checkConnection, 5000)
VncPoll ==
  /\ root = "App" /\ ~crashed
  /\ Truthy(appShowBrowser)
  /\ connectionStatus' = checkConnection(VncProps.wsEndpoint)
  /\ UNCHANGED <<scVars, tcVars, root, renderVars, clock, sessionId, wsEndpoint, screenshot,
                 appLoading, error, appShowBrowser, appProjects, browserUseResult,
                 createReq, vncUrl, vncReq, isEmbedded, crashed>>

(***************************************************************************)
(* TerminalChat                                                            *)
(***************************************************************************)
\* JavaScript a !== false
NotFalse(a) == Bool(a # Bool(FALSE))

\* one element of history.map(msg => ({...})) in loadChatHistory
HistoryTurn(msg) ==
  [type |-> "user", content |-> msg.message, timestamp |-> msg.timestamp,
   response |-> msg.response, screenshot |-> msg.screenshot,
   needsBrowser |-> NotNull(msg.browser_action),
   projectCreated |-> msg.project_created,
   browserUseResult |-> msg.browser_use_result, vncUrl |-> msg.vnc_url,
   conversationContinues |-> NotFalse(msg.conversation_continues)]

\* the transcript loadChatHistory sets for a 2xx answer
MapHistory(history) == [i \in 1..Len(history) |-> HistoryTurn(history[i])]

\* the updater of sendMessage's success path (the transcript is not empty)
ApplyChatResponse(prev, data) ==
  IF prev[Len(prev)].type = "user"
  THEN [prev EXCEPT ![Len(prev)] =
          [@ EXCEPT !.response = data.response,
                    !.screenshot = data.screenshot,
                    !.needsBrowser = Or(data.needs_browser, NotNull(data.browser_action)),
                    !.projectCreated = data.project_created,
                    !.browserUseResult = data.browser_use_result,
                    !.vncUrl = data.vnc_url,
                    !.conversationContinues = NotFalse(data.conversation_continues)]]
  ELSE prev

ErrorText == Str("Error: Failed to send message. Please try again.")

\* the updater of sendMessage's catch path (the transcript is not empty)
ApplyChatFailure(prev) ==
  IF prev[Len(prev)].type = "user"
  THEN [prev EXCEPT ![Len(prev)] =
          [@ EXCEPT !.response = ErrorText, !.conversationContinues = Bool(TRUE)]]
  ELSE prev

\* App.handleScreenshotUpdate, called if (data.screenshot && onScreenshotUpdate)
UpdateScreenshot(shot, data) == IF Truthy(data.screenshot) THEN data.screenshot ELSE shot

\* variant: the panel follows needs_browser alone
handleBrowserToggleNeedsOnly(data) == data.needs_browser

\* App.handleBrowserToggle(data.needs_browser || data.browser_use_result ||
\* data.browser_action !== null)
handleBrowserToggle(data) ==
  Or(Or(data.needs_browser, data.browser_use_result), NotNull(data.browser_action))

\* App.handleProjectCreated, called if (data.project_created && onProjectCreated)
handleProjectCreated(prev, data) ==
  IF Truthy(data.project_created) THEN Append(prev, data.project_created.v) ELSE prev

\* onChange of the input box (disabled while loading)
TcSetInput(v) ==
  /\ root = "App" /\ ~crashed
  /\ ~tcLoading
  /\ v # tcInput
  /\ tcInput' = v
  /\ UNCHANGED <<scVars, appVars, root, renderVars, clock, tcMessages, tcLoading, chatReq,
                 historyReqs>>

\* the guard of TerminalChat.sendMessage: if (!input.trim() || loading) return
TcCanSend == ~(Trim(tcInput) = <<>> \/ tcLoading)

\* TerminalChat.sendMessage up to the fetch
TcSendMessage ==
  /\ root = "App" /\ ~crashed
  /\ TcCanSend
  /\ clock <= MaxTurns
  /\ LET userMessage == [type |-> "user", content |-> Trim(tcInput),
                         timestamp |-> clock,
                         response |-> undefined, screenshot |-> undefined,
                         needsBrowser |-> undefined, projectCreated |-> undefined,
                         browserUseResult |-> undefined, vncUrl |-> undefined,
                         conversationContinues |-> undefined]
     IN  /\ tcMessages' = Append(tcMessages, userMessage)
         /\ chatReq' = [state |-> "sent", data |-> undefined,
                        body |-> [session_id |-> sessionId,
                                  message |-> userMessage.content,
                                  ws_endpoint |-> wsEndpoint,
                                  use_browser_use |-> TRUE]]
  /\ tcLoading' = TRUE
  /\ tcInput' = <<>>
  /\ clock' = clock + 1
  /\ UNCHANGED <<scVars, appVars, root, renderVars, historyReqs>>

\* POST /api/chat settles with a 2xx answer
ChatOk(data) ==
  /\ root = "App" /\ ~crashed
  /\ chatReq.state = "sent"
  /\ Truthy(data.project_created) => Len(appProjects) < MaxProjects
  /\ chatReq' = [chatReq EXCEPT !.state = "ok", !.data = data]
  /\ UNCHANGED <<scVars, appVars, root, renderVars, clock, tcMessages, tcInput, tcLoading,
                 historyReqs>>

\* POST /api/chat settles with another status, or the fetch rejects
ChatFail(e) ==
  /\ root = "App" /\ ~crashed
  /\ chatReq.state = "sent"
  /\ chatReq' = [chatReq EXCEPT !.state = e]
  /\ UNCHANGED <<scVars, appVars, root, renderVars, clock, tcMessages, tcInput, tcLoading,
                 historyReqs>>

\* the rest of sendMessage after the await
ChatContinue ==
  /\ root = "App" /\ ~crashed
  /\ chatReq.state \in {"ok"} \cup FetchErrors
  /\ chatReq' = IdleReq
  /\ IF tcMessages = <<>>
     THEN \* lastMsg is undefined: lastMsg.type throws in the updater
          /\ crashed' = TRUE
          /\ UNCHANGED <<tcMessages, tcLoading, screenshot, appShowBrowser,
                         appProjects, isEmbedded, connectionStatus>>
     ELSE /\ crashed' = crashed
          /\ tcLoading' = FALSE
          /\ IF chatReq.state = "ok"
             THEN /\ tcMessages' = ApplyChatResponse(tcMessages, chatReq.data)
                  /\ screenshot' = UpdateScreenshot(screenshot, chatReq.data)
                  /\ appShowBrowser' = handleBrowserToggle(chatReq.data)
                  /\ appProjects' = handleProjectCreated(appProjects, chatReq.data)
                  /\ LET v == VncRender(appShowBrowser, handleBrowserToggle(chatReq.data),
                                        isEmbedded, connectionStatus)
                     IN  /\ isEmbedded' = v.isEmbedded
                         /\ connectionStatus' = v.connectionStatus
             ELSE /\ tcMessages' = ApplyChatFailure(tcMessages)
                  /\ UNCHANGED <<screenshot, appShowBrowser, appProjects, isEmbedded,
                                 connectionStatus>>
  /\ UNCHANGED <<scVars, root, renderVars, clock, sessionId, wsEndpoint, appLoading, error,
                 browserUseResult, createReq, vncUrl, vncReq, tcInput, historyReqs>>

RemoveAt(q, i) == SubSeq(q, 1, i - 1) \o SubSeq(q, i + 1, Len(q))

\* GET /api/chat-history settles with a 2xx answer
HistoryOk(i, history) ==
  /\ root = "App" /\ ~crashed
  /\ i \in 1..Len(historyReqs)
  /\ historyReqs[i].state = "sent"
  /\ historyReqs' = [historyReqs EXCEPT ![i].state = "ok", ![i].history = history]
  /\ UNCHANGED <<scVars, appVars, root, renderVars, clock, tcMessages, tcInput, tcLoading,
                 chatReq>>

\* GET /api/chat-history settles with another status, or the fetch rejects
HistoryFail(i, e) ==
  /\ root = "App" /\ ~crashed
  /\ i \in 1..Len(historyReqs)
  /\ historyReqs[i].state = "sent"
  /\ historyReqs' = [historyReqs EXCEPT ![i].state = e]
  /\ UNCHANGED <<scVars, appVars, root, renderVars, clock, tcMessages, tcInput, tcLoading,
                 chatReq>>

\* variant: the history is put in front of the turns on screen
loadChatHistoryPrepend(prev, r) ==
  IF r.state = "ok" THEN MapHistory(r.history) \o prev ELSE prev

\* the transcript after loadChatHistory ran on with the settled fetch r:
\* if (response.ok) setMessages(history.map(...)), else nothing
loadChatHistory(prev, r) ==
  IF r.state = "ok" THEN MapHistory(r.history) ELSE prev

\* the rest of loadChatHistory after the await
HistoryContinue(i) ==
  /\ root = "App" /\ ~crashed
  /\ i \in 1..Len(historyReqs)
  /\ historyReqs[i].state \in {"ok"} \cup FetchErrors
  /\ tcMessages' = loadChatHistory(tcMessages, historyReqs[i])
  /\ historyReqs' = RemoveAt(historyReqs, i)
  /\ UNCHANGED <<scVars, appVars, root, renderVars, clock, tcInput, tcLoading, chatReq>>

\* a loadChatHistory call started by the effect on [sessionId]
NewHistoryReq(sid) == [session |-> sid, state |-> "sent", history |-> <<>>]

(***************************************************************************)
(* App                                                                     *)
(***************************************************************************)
\* variant: autoStartSession reports a failure like createSession
CreateErrorAlways(err, kind, r) ==
  IF r # "ok"
  THEN Str("Failed to create browser session. Please try again.")
  ELSE err

\* the banner text after create-session settled with r: createSession's catch
\* calls setError, autoStartSession only logs (and ignores a status that is
\* not 2xx)
CreateError(err, kind, r) ==
  IF r # "ok" /\ kind = "createSession"
  THEN Str("Failed to create browser session. Please try again.")
  ELSE err

\* useState("http://localhost:6080/vnc.html"): the placeholder address
DefaultVncUrl == Str("http://localhost:6080/vnc.html")

\* bodies of a 2xx answer of GET /api/vnc-info: another address, the placeholder
\* address, no vnc_url
VncInfos == {[vnc_url |-> Str("http://vnc")], [vnc_url |-> DefaultVncUrl],
             [vnc_url |-> undefined]}

\* variant: the frame is rendered for every address that is not empty
VncContentAnyUrl(emb, url) ==
  IF emb
  THEN IF Truthy(url) THEN "iframe" ELSE "placeholder"
  ELSE "minimized"

\* what VNCBrowserView renders in browser-content:
\* isEmbedded ? (vnc_url && vnc_url !== "http://localhost:6080/vnc.html"
\*               ? <iframe/> : placeholder) : minimized
VncContent(emb, url) ==
  IF emb
  THEN IF Truthy(url) /\ url # DefaultVncUrl THEN "iframe" ELSE "placeholder"
  ELSE "minimized"

\* GET /api/vnc-info settles (r) and loadVNCInfo runs on after the await:
\* if (response.ok) setVncUrl(vncInfo.vnc_url)
VncInfoContinue(r) ==
  /\ root = "App" /\ ~crashed
  /\ vncReq.state = "sent"
  /\ \E vncInfo \in VncInfos : vncUrl' = IF r = "ok" THEN vncInfo.vnc_url ELSE vncUrl
  /\ vncReq' = [state |-> "idle", result |-> r]
  /\ UNCHANGED <<scVars, tcVars, root, renderVars, clock, sessionId, wsEndpoint, screenshot,
                 appLoading, error, appShowBrowser, appProjects, browserUseResult,
                 createReq, crashed, isEmbedded, connectionStatus>>

\* POST /api/create-session settles (r) and autoStartSession / createSession
\* runs on after the await
CreateContinue(r) ==
  /\ root = "App" /\ ~crashed
  /\ createReq.state = "sent"
  /\ wsEndpoint' = IF r = "ok" THEN Str("ws://browser") ELSE wsEndpoint
  /\ error' = CreateError(error, createReq.kind, r)
  /\ appLoading' = FALSE
  /\ createReq' = [createReq EXCEPT !.state = "idle", !.result = r]
  /\ UNCHANGED <<scVars, tcVars, root, renderVars, clock, sessionId, screenshot,
                 appShowBrowser, appProjects, browserUseResult, crashed, vncUrl, vncReq, isEmbedded, connectionStatus>>

\* variant: a Start Session button that is not disabled while loading
createSessionAnytime ==
  /\ root = "App" /\ ~crashed
  /\ ~Truthy(wsEndpoint)
  /\ appLoading' = TRUE
  /\ error' = null
  /\ createReq' = [state |-> "sent", kind |-> "createSession", result |-> "none"]
  /\ UNCHANGED <<scVars, tcVars, root, renderVars, clock, sessionId, wsEndpoint, screenshot,
                 appShowBrowser, appProjects, browserUseResult, crashed, vncUrl, vncReq, isEmbedded, connectionStatus>>

\* App.createSession: the Start Session button (shown while there is no
\* wsEndpoint, disabled while loading)
createSession ==
  /\ root = "App" /\ ~crashed
  /\ ~Truthy(wsEndpoint)
  /\ ~appLoading
  /\ appLoading' = TRUE
  /\ error' = null
  /\ createReq' = [state |-> "sent", kind |-> "createSession", result |-> "none"]
  /\ UNCHANGED <<scVars, tcVars, root, renderVars, clock, sessionId, wsEndpoint, screenshot,
                 appShowBrowser, appProjects, browserUseResult, crashed, vncUrl, vncReq, isEmbedded, connectionStatus>>

\* the close button of the error banner
DismissError ==
  /\ root = "App" /\ ~crashed
  /\ Truthy(error)
  /\ error' = null
  /\ UNCHANGED <<scVars, tcVars, root, renderVars, clock, sessionId, wsEndpoint, screenshot,
                 appLoading, appShowBrowser, appProjects, browserUseResult,
                 createReq, vncUrl, vncReq, isEmbedded, connectionStatus, crashed>>

\* variant: End Session that leaves the ledger alone
ResetProjectsKept(prev) == prev

\* setProjects([]) in App.endSession
ResetProjects(prev) == <<>>

\* App.endSession: the End Session button (shown while there is a wsEndpoint);
\* the new sessionId makes TerminalChat load the history again
endSession ==
  /\ root = "App" /\ ~crashed
  /\ Truthy(wsEndpoint)
  /\ sessionId < MaxSessions
  /\ wsEndpoint' = Str("")
  /\ screenshot' = null
  /\ sessionId' = sessionId + 1
  /\ appShowBrowser' = Bool(FALSE)
  /\ appProjects' = ResetProjects(appProjects)
  /\ browserUseResult' = null
  /\ historyReqs' = Append(historyReqs, NewHistoryReq(sessionId + 1))
  /\ LET v == VncRender(appShowBrowser, Bool(FALSE), isEmbedded, connectionStatus)
     IN  /\ isEmbedded' = v.isEmbedded
         /\ connectionStatus' = v.connectionStatus
  /\ UNCHANGED <<scVars, root, renderVars, clock, appLoading, error, createReq, vncUrl, vncReq, crashed,
                 tcMessages, tcInput, tcLoading, chatReq>>

(***************************************************************************)
(* renderMessage: StreamingChat, TerminalChat and ChatInterface            *)
(***************************************************************************)
\* the character U+2022
Bullet == "u2022"

\* the character U+0060 (backtick)
Backtick == "u0060"

\* the characters a text is made of
Chars == {"*", "-", " ", Bullet, Backtick, "a", "\n"}

MaxContent == 5

Contents == UNION {[1..n -> Chars] : n \in 0..MaxContent}

\* String.prototype.split('\n')
RECURSIVE Split(_)
Split(s) ==
  IF \E i \in DOMAIN s : s[i] = "\n"
  THEN LET i == CHOOSE i \in DOMAIN s : s[i] = "\n" /\ \A j \in 1..(i - 1) : s[j] # "\n"
       IN  <<SubSeq(s, 1, i - 1)>> \o Split(SubSeq(s, i + 1, Len(s)))
  ELSE <<s>>

\* String.prototype.startsWith
StartsWith(s, p) == Len(s) >= Len(p) /\ SubSeq(s, 1, Len(p)) = p

\* String.prototype.endsWith
EndsWith(s, p) == Len(s) >= Len(p) /\ SubSeq(s, Len(s) - Len(p) + 1, Len(s)) = p

\* String.prototype.slice(begin, end): a negative index counts from the end
Slice(s, begin, end) ==
  LET n == Len(s)
      from == IF begin < 0 THEN (IF n + begin < 0 THEN 0 ELSE n + begin)
              ELSE (IF begin > n THEN n ELSE begin)
      to == IF end < 0 THEN (IF n + end < 0 THEN 0 ELSE n + end)
            ELSE (IF end > n THEN n ELSE end)
  IN  IF from < to THEN SubSeq(s, from + 1, to) ELSE <<>>

\* the element StreamingChat.renderMessage makes of one line
ScRenderLine(line) ==
  IF StartsWith(line, <<"*", "*">>) /\ EndsWith(line, <<"*", "*">>)
  THEN [className |-> "message-header", text |-> Slice(line, 2, -2)]
  ELSE IF StartsWith(line, <<"-", " ">>) \/ StartsWith(line, <<Bullet, " ">>)
  THEN [className |-> "message-bullet", text |-> <<Bullet, " ">> \o Slice(line, 2, Len(line))]
  ELSE IF StartsWith(line, <<Backtick, Backtick, Backtick>>)
  THEN [className |-> "message-code", text |-> <<Backtick, Backtick, Backtick>>]
  ELSE IF Trim(line) = <<>>
  THEN [className |-> "br", text |-> <<>>]
  ELSE [className |-> "message-line", text |-> line]

\* StreamingChat.renderMessage
ScRenderMessage(text) ==
  LET lines == Split(text)
  IN  Obj([i \in 1..Len(lines) |-> ScRenderLine(lines[i])])

\* variant: a header is every line that starts with two asterisks
TcRenderLineLoose(line) ==
  IF StartsWith(line, <<"*", "*">>)
  THEN [className |-> "message-header", text |-> Slice(line, 2, -2)]
  ELSE IF StartsWith(line, <<"-", " ">>) \/ StartsWith(line, <<Bullet, " ">>)
  THEN [className |-> "message-bullet", text |-> <<Bullet, " ">> \o Slice(line, 2, Len(line))]
  ELSE IF StartsWith(line, <<Backtick, Backtick, Backtick>>)
  THEN [className |-> "message-code", text |-> <<Backtick, Backtick, Backtick>>]
  ELSE IF Trim(line) = <<>>
  THEN [className |-> "br", text |-> <<>>]
  ELSE [className |-> "message-line", text |-> line]

\* the element TerminalChat.renderMessage makes of one line
TcRenderLine(line) ==
  IF StartsWith(line, <<"*", "*">>) /\ EndsWith(line, <<"*", "*">>)
  THEN [className |-> "message-header", text |-> Slice(line, 2, -2)]
  ELSE IF StartsWith(line, <<"-", " ">>) \/ StartsWith(line, <<Bullet, " ">>)
  THEN [className |-> "message-bullet", text |-> <<Bullet, " ">> \o Slice(line, 2, Len(line))]
  ELSE IF StartsWith(line, <<Backtick, Backtick, Backtick>>)
  THEN [className |-> "message-code", text |-> <<Backtick, Backtick, Backtick>>]
  ELSE IF Trim(line) = <<>>
  THEN [className |-> "br", text |-> <<>>]
  ELSE [className |-> "message-line", text |-> line]

\* TerminalChat.renderMessage
TcRenderMessage(text) ==
  LET lines == Split(text)
  IN  Obj([i \in 1..Len(lines) |-> TcRenderLine(lines[i])])

\* the element ChatInterface.renderMessage makes of one line
CiRenderLine(line) ==
  IF StartsWith(line, <<"*", "*">>) /\ EndsWith(line, <<"*", "*">>)
  THEN [className |-> "message-header", text |-> Slice(line, 2, -2)]
  ELSE IF StartsWith(line, <<"-", " ">>) \/ StartsWith(line, <<Bullet, " ">>)
  THEN [className |-> "message-bullet", text |-> <<Bullet, " ">> \o Slice(line, 2, Len(line))]
  ELSE IF StartsWith(line, <<Backtick, Backtick, Backtick>>)
  THEN [className |-> "message-code", text |-> <<Backtick, Backtick, Backtick>>]
  ELSE IF Trim(line) = <<>>
  THEN [className |-> "br", text |-> <<>>]
  ELSE [className |-> "message-line", text |-> line]

\* ChatInterface.renderMessage: if (!content) return null, which for a string
\* is the empty string
CiRenderMessage(text) ==
  IF text = <<>>
  THEN null
  ELSE LET lines == Split(text)
       IN  Obj([i \in 1..Len(lines) |-> CiRenderLine(lines[i])])

\* the three copies are called with the same text
renderMessage ==
  /\ rendered = undefined
  /\ rendered' = [StreamingChat |-> ScRenderMessage(content),
                  TerminalChat |-> TcRenderMessage(content),
                  ChatInterface |-> CiRenderMessage(content)]
  /\ UNCHANGED <<root, clock, scVars, appVars, tcVars, content>>

(***************************************************************************)
(* Initial state: the components right after their mount effects ran       *)
(***************************************************************************)
ScInit ==
  /\ scMounted = TRUE
  /\ websocketUrl = "ws://a"
  /\ urlChanges = 0
  /\ scMessages = <<>>
  /\ scInput = <<>>
  /\ scLoading = FALSE
  /\ connected = FALSE
  /\ scShowBrowser = FALSE
  /\ scProjects = <<>>
  /\ wsRef = 1
  /\ sockets = [s \in SocketIds |->
                  IF s = 1 THEN [readyState |-> "CONNECTING", url |-> "ws://a"]
                  ELSE FreeSocket]
  /\ timers = <<>>
  /\ wire = <<>>
  /\ scSent = <<>>
  /\ backend = <<>>
  /\ lastError = 0

\* App after its mount effect: a session id, autoStartSession and the first
\* loadChatHistory under way
AppInit ==
  /\ sessionId = 1
  /\ wsEndpoint = Str("")
  /\ screenshot = null
  /\ appLoading = TRUE
  /\ error = null
  /\ appShowBrowser = Bool(FALSE)
  /\ appProjects = <<>>
  /\ browserUseResult = null
  /\ createReq = [state |-> "sent", kind |-> "autoStartSession", result |-> "none"]
  /\ vncUrl = DefaultVncUrl
  /\ vncReq = [state |-> "sent", result |-> "none"]
  /\ isEmbedded = VncProps.autoShow
  /\ connectionStatus = "connecting"
  /\ crashed = FALSE
  /\ tcMessages = <<>>
  /\ tcInput = <<>>
  /\ tcLoading = FALSE
  /\ chatReq = IdleReq
  /\ historyReqs = <<NewHistoryReq(1)>>

Init ==
  /\ root \in {"StreamingChat", "App"}
  /\ clock = 1
  /\ ScInit
  /\ AppInit
  /\ content = <<>>
  /\ rendered = undefined

\* renderMessage about to be called with a text of at most MaxContent characters
RenderInit ==
  /\ root = "App"
  /\ clock = 1
  /\ ScInit
  /\ AppInit
  /\ content \in Contents
  /\ rendered = undefined

\* the three copies of renderMessage applied to every text
SpecRender == RenderInit /\ [][renderMessage]_vars

\* the connection manager of StreamingChat
ConnNext ==
  \/ \E s \in SocketIds : WsOpen(s)
  \/ \E s \in SocketIds : WsClose(s)
  \/ TimerFire
  \/ \E u \in Urls : UrlChange(u)
  \/ Unmount

\* the transcript of StreamingChat over one reconnecting socket, the backend
\* sending frames of F
ScChatOver(F) ==
  \/ \E s \in SocketIds : WsOpen(s)
  \/ \E s \in SocketIds : WsClose(s)
  \/ TimerFire
  \/ \E s \in SocketIds, f \in F : BackendSend(s, f)
  \/ OnMessage
  \/ \E v \in Inputs : ScSetInput(v)
  \/ ScSendMessage
  \/ ScMinimize

\* ... any frame, also text that is not JSON
ScChatNext == ScChatOver(Frames)

\* TerminalChat: the transcript and its two fetches
TcNext ==
  \/ \E v \in Inputs : TcSetInput(v)
  \/ TcSendMessage
  \/ \E d \in ChatResponses : ChatOk(d)
  \/ \E e \in FetchErrors : ChatFail(e)
  \/ ChatContinue
  \/ \E i \in 1..MaxSessions, h \in Histories : HistoryOk(i, h)
  \/ \E i \in 1..MaxSessions, e \in FetchErrors : HistoryFail(i, e)
  \/ \E i \in 1..MaxSessions : HistoryContinue(i)

\* App: the session controls
SessionNext ==
  \/ \E r \in {"ok"} \cup FetchErrors : CreateContinue(r)
  \/ \E r \in {"ok"} \cup FetchErrors : VncInfoContinue(r)
  \/ createSession
  \/ DismissError
  \/ endSession

\* VNCBrowserView: its buttons and its poll
VncNext ==
  \/ VncToggle
  \/ VncExpandView
  \/ VncPoll

AppNext == TcNext \/ SessionNext \/ VncNext

\* App: the browser panel over the answers of the chat and the session
ViewNext ==
  \/ \E v \in Inputs : TcSetInput(v)
  \/ TcSendMessage
  \/ \E d \in ChatResponses : ChatOk(d)
  \/ \E e \in FetchErrors : ChatFail(e)
  \/ ChatContinue
  \/ \E r \in {"ok"} \cup FetchErrors : CreateContinue(r)
  \/ \E r \in {"ok"} \cup FetchErrors : VncInfoContinue(r)
  \/ endSession
  \/ VncNext

SpecView == Init /\ [][ViewNext]_vars

\* the browser panels of StreamingChat and of App
PanelNext == ScChatOver(Frames \ {Malformed}) \/ ViewNext

SpecPanel == Init /\ [][PanelNext]_vars

\* the two transcripts: StreamingChat over its reconnecting socket with a
\* backend that sends JSON, and TerminalChat with the history load of its mount
ChatNext == ScChatOver(Frames \ {Malformed}) \/ TcNext

Next == ConnNext \/ ScChatNext \/ AppNext

Spec == Init /\ [][Next]_vars

SpecConn == Init /\ [][ConnNext]_vars

\* a timer that is due fires
FairConn == SpecConn /\ WF_vars(TimerFire)

SpecChat == Init /\ [][ChatNext]_vars

\* the continuation of a settled fetch runs (the promise's reaction is a queued
\* microtask)
FairChat == SpecChat /\ WF_vars(ChatContinue)

\* StreamingChat on its first socket, with a backend that also sends text
\* that is not JSON
FramesNext ==
  \/ \E s \in SocketIds : WsOpen(s)
  \/ \E s \in SocketIds, f \in Frames : BackendSend(s, f)
  \/ OnMessage
  \/ \E v \in Inputs : ScSetInput(v)
  \/ ScSendMessage

SpecFrames == Init /\ [][FramesNext]_vars

SpecApp == Init /\ [][AppNext]_vars

\* App: the chat with the session started and ended
LedgerNext ==
  \/ TcNext
  \/ \E r \in {"ok"} \cup FetchErrors : CreateContinue(r)
  \/ endSession

SpecLedger == Init /\ [][LedgerNext]_vars

\* App: the REST calls failing or succeeding, without the answers of the chat
BannerNext ==
  \/ SessionNext
  \/ \E v \in Inputs : TcSetInput(v)
  \/ TcSendMessage
  \/ \E e \in FetchErrors : ChatFail(e)
  \/ ChatContinue
  \/ \E i \in 1..MaxSessions, e \in FetchErrors : HistoryFail(i, e)
  \/ \E i \in 1..MaxSessions : HistoryContinue(i)

SpecBanner == Init /\ [][BannerNext]_vars

\* StreamingChat: submitting while the connection comes and goes
SendNext ==
  \/ ConnNext
  \/ \E v \in Inputs : ScSetInput(v)
  \/ ScSendMessage

SpecSend == Init /\ [][SendNext]_vars

\* StreamingChat with its connection manager and a backend that sends one
\* ai_response for each chat_message
ReplyNext ==
  \/ ConnNext
  \/ \E f \in AiResponses : BackendReply(f)
  \/ OnMessage
  \/ \E v \in Inputs : ScSetInput(v)
  \/ ScSendMessage

SpecReply == Init /\ [][ReplyNext]_vars

(***************************************************************************)
(* Steps named by the properties                                           *)
(***************************************************************************)
\* StreamingChat handles an ai_response frame in this step
AiDelivered ==
  /\ root = "StreamingChat"
  /\ scMounted
  /\ wire # <<>>
  /\ Head(wire).frame.type = "ai_response"
  /\ wire' = Tail(wire)
  /\ UNCHANGED <<sockets, wsRef, scMounted>>

\* TerminalChat.sendMessage runs to its end in this step
ChatCompleted ==
  /\ root = "App"
  /\ chatReq.state \in {"ok"} \cup FetchErrors
  /\ chatReq'.state = "idle"
  /\ ~crashed'

\* loadChatHistory runs to its end in this step, for the fetch at position i
HistoryLoaded(i) ==
  /\ root = "App"
  /\ i \in 1..Len(historyReqs)
  /\ historyReqs[i].state # "sent"
  /\ historyReqs' = RemoveAt(historyReqs, i)

\* Files: {files_created?.length || 0}
fileCount(project) == Len(project.files_created)

(***************************************************************************)
(* C1: in StreamingChat and in TerminalChat the transcript never holds two *)
(* Pending turns, and while a turn is Pending no step appends a turn or    *)
(* sends a request.                                                        *)
(***************************************************************************)
C1_SinglePending ==
  [][ /\ NumPending(scMessages') <= 1
      /\ NumPending(tcMessages') <= 1
      /\ NumPending(scMessages) >= 1 =>
           /\ Len(scMessages') = Len(scMessages)
           /\ scSent' = scSent
      /\ NumPending(tcMessages) >= 1 =>
           /\ NumPending(tcMessages') <= NumPending(tcMessages)
           /\ chatReq'.state = "sent" => chatReq' = chatReq ]_vars

\* a second submit was accepted after the first was answered; it is Pending
C1_Witness ==
  /\ root = "StreamingChat"
  /\ Len(scMessages) = 2
  /\ ~Pending(scMessages[1])
  /\ Pending(scMessages[2])
  /\ scLoading

(***************************************************************************)
(* C2: an ai_response arriving in StreamingChat while exactly one turn is  *)
(* Pending gives that turn, and no other, the seven fields of the event,   *)
(* and clears loading.                                                     *)
(***************************************************************************)
C2_CompletesPending ==
  [][ (AiDelivered /\ NumPending(scMessages) = 1) =>
        LET data == Head(wire).frame
            i == CHOOSE k \in 1..Len(scMessages) : Pending(scMessages[k])
        IN  /\ Len(scMessages') = Len(scMessages)
            /\ \A k \in 1..Len(scMessages) : k # i => scMessages'[k] = scMessages[k]
            /\ scMessages'[i].response = data.content
            /\ scMessages'[i].provider = data.provider
            /\ scMessages'[i].model = data.model
            /\ scMessages'[i].browser_action = data.browser_action
            /\ scMessages'[i].screenshot = data.screenshot
            /\ scMessages'[i].project_created = data.project_created
            /\ scMessages'[i].needs_browser = data.needs_browser
            /\ scMessages'[i].content = scMessages[i].content
            /\ scMessages'[i].id = scMessages[i].id
            /\ scLoading' = FALSE ]_vars

\* the second turn was completed by the event that carries a screenshot, the
\* first by the one that carries a project
C2_Witness ==
  /\ root = "StreamingChat"
  /\ Len(scMessages) = 2
  /\ scMessages[1].project_created = Obj(TodoApp)
  /\ scMessages[2].screenshot = Str("png1")
  /\ scMessages[2].needs_browser = Bool(TRUE)
  /\ ~scLoading

(***************************************************************************)
(* C3: an ai_response arriving in StreamingChat while no turn is Pending   *)
(* leaves the transcript unchanged.                                        *)
(***************************************************************************)
C3_IgnoredWithoutPending ==
  [][ (AiDelivered /\ NumPending(scMessages) = 0) => scMessages' = scMessages ]_vars

(***************************************************************************)
(* C4: loadChatHistory with a 2xx answer of N entries sets the transcript  *)
(* to N answered turns in input order with the entries' message and        *)
(* response, whatever the transcript was (so loading the same answer again *)
(* changes nothing); a failed fetch leaves the transcript as it was.       *)
(***************************************************************************)
C4_LoadHistory ==
  [][ \A i \in 1..Len(historyReqs) : HistoryLoaded(i) =>
        LET r == historyReqs[i]
        IN  IF r.state = "ok"
            THEN /\ Len(tcMessages') = Len(r.history)
                 /\ \A k \in 1..Len(r.history) :
                      /\ tcMessages'[k].content = r.history[k].message
                      /\ tcMessages'[k].response = r.history[k].response
                      /\ ~Pending(tcMessages'[k])
                 /\ loadChatHistory(tcMessages', r) = tcMessages'
                 /\ loadChatHistory(loadChatHistory(tcMessages, r), r)
                      = loadChatHistory(tcMessages, r)
            ELSE tcMessages' = tcMessages ]_vars

\* a history of two entries is on screen
C4_Witness ==
  /\ root = "App"
  /\ historyReqs = <<>>
  /\ Len(tcMessages) = 2
  /\ tcMessages[1].content = HistoryEntry1.message
  /\ tcMessages[2].response = HistoryEntry2.response

(***************************************************************************)
(* C5, as amended: in StreamingChat an ai_response with needs_browser=true *)
(* makes the viewport visible; once the user has minimized it, it stays    *)
(* hidden across every event except a further ai_response with            *)
(* needs_browser=true, which shows it again; only Minimize hides it.       *)
(***************************************************************************)
C5_HiddenUntilNextSignal ==
  [][ /\ (AiDelivered /\ Truthy(Head(wire).frame.needs_browser)) => scShowBrowser'
      /\ (AiDelivered /\ ~Truthy(Head(wire).frame.needs_browser)) =>
           scShowBrowser' = scShowBrowser
      /\ (~scShowBrowser /\ scShowBrowser') =>
           (AiDelivered /\ Truthy(Head(wire).frame.needs_browser))
      /\ (scShowBrowser /\ ~scShowBrowser') =>
           UNCHANGED <<scMessages, scLoading, scProjects, wire, sockets>> ]_vars

\* a turn of the transcript asked for the browser, and the viewport is hidden:
\* the user minimized it
UserHidViewport ==
  /\ root = "StreamingChat"
  /\ ~scShowBrowser
  /\ \E k \in 1..Len(scMessages) : scMessages[k].needs_browser = Bool(TRUE)

C5_Witness ==
  /\ UserHidViewport
  /\ wire # <<>>
  /\ Head(wire).frame.type = "ai_response"
  /\ Truthy(Head(wire).frame.needs_browser)

\* C5 as stated: once the user has hidden the viewport it stays hidden,
\* whatever completion events follow (StreamingChat has no expand control)
C5_StaysHidden ==
  [][ UserHidViewport => ~scShowBrowser' ]_vars

(***************************************************************************)
(* C6: a completion that carries project_created appends that one record   *)
(* after the records of the ledger, with the event's project_name,         *)
(* template and files_created; any other completion leaves the ledger      *)
(* unchanged; the todo-app answer turns an empty ledger into one record    *)
(* named todo-app with fileCount 2.                                        *)
(***************************************************************************)
LedgerAppended(old, new, pc) ==
  IF Truthy(pc)
  THEN /\ Len(new) = Len(old) + 1
       /\ SubSeq(new, 1, Len(old)) = old
       /\ new[Len(new)].project_name = pc.v.project_name
       /\ new[Len(new)].template = pc.v.template
       /\ new[Len(new)].files_created = pc.v.files_created
       /\ fileCount(new[Len(new)]) = Len(pc.v.files_created)
       /\ (old = <<>> /\ pc = Obj(TodoApp)) =>
            /\ Len(new) = 1
            /\ new[1].project_name = "todo-app"
            /\ fileCount(new[1]) = 2
  ELSE new = old

C6_LedgerAppend ==
  [][ /\ AiDelivered =>
           LedgerAppended(scProjects, scProjects', Head(wire).frame.project_created)
      /\ (ChatCompleted /\ chatReq.state = "ok") =>
           LedgerAppended(appProjects, appProjects', chatReq.data.project_created)
      /\ (ChatCompleted /\ chatReq.state # "ok") => appProjects' = appProjects ]_vars

\* two projects were recorded, in the order of their events
C6_Witness ==
  /\ root = "StreamingChat"
  /\ scProjects = <<TodoApp, BlogApp>>

(***************************************************************************)
(* C7: every close of a socket (a failed attempt included) schedules one   *)
(* connectWebSocket after the fixed delay, and a scheduled reconnect is    *)
(* followed by a connect attempt to the same URL, however many attempts    *)
(* came before.                                                            *)
(***************************************************************************)
Alive == {"CONNECTING", "OPEN", "CLOSING"}

\* socket s closes in this step
Closes(s) ==
  /\ sockets[s].readyState \in Alive
  /\ sockets'[s].readyState \in {"CLOSED", "FREE"}

C7_ReconnectAfterClose ==
  /\ [][ \A s \in SocketIds : Closes(s) =>
           timers' = Append(timers, [delay |-> 3000, url |-> sockets[s].url]) ]_vars
  /\ \A u \in Urls :
       (timers # <<>> /\ Head(timers).url = u)
         ~> (sockets[wsRef].readyState = "CONNECTING" /\ sockets[wsRef].url = u)

\* the socket of the session closed: one reconnect timer is pending and no
\* socket is left connecting or open
C7_Witness ==
  /\ root = "StreamingChat"
  /\ scMounted
  /\ urlChanges = 0
  /\ sockets[wsRef].readyState = "CLOSED"
  /\ Len(timers) = 1
  /\ ~connected

(***************************************************************************)
(* C8: once StreamingChat is disposed no connect attempt is made: no step  *)
(* taken after the teardown creates a socket.                              *)
(***************************************************************************)
C8_NoConnectAfterTeardown ==
  [][ ~scMounted =>
        \A s \in SocketIds :
          sockets'[s].readyState = "CONNECTING" => sockets[s].readyState = "CONNECTING" ]_vars

(***************************************************************************)
(* C9: at most one socket is connecting or open, it is the one wsRef       *)
(* refers to, and at most one reconnect timer is pending.                  *)
(***************************************************************************)
C9_SingleChannel ==
  /\ \A s \in SocketIds : sockets[s].readyState \in {"CONNECTING", "OPEN"} => s = wsRef
  /\ Len(timers) <= 1

(***************************************************************************)
(* C10: no step removes or reorders a turn of a transcript.                *)
(***************************************************************************)
\* a turn is known by its text and its creation time
TurnKey(m) == <<m.content, m.timestamp>>

\* the turns of old are in new, in the same order
TurnsKept(old, new) ==
  \E f \in [1..Len(old) -> 1..Len(new)] :
    /\ \A i \in 1..Len(old) : TurnKey(new[f[i]]) = TurnKey(old[i])
    /\ \A i, j \in 1..Len(old) : i < j => f[i] < f[j]

C10_TurnsNeverRemoved ==
  [][ TurnsKept(scMessages, scMessages') /\ TurnsKept(tcMessages, tcMessages') ]_vars

(***************************************************************************)
(* C11: in TerminalChat, when the result or the failure of a chat request  *)
(* is applied, every turn that already has a response keeps all its fields *)
(* (the result goes to the Pending turn of that submit only), also when    *)
(* loadChatHistory rebuilt the transcript while the request was in flight. *)
(***************************************************************************)
C11_AnsweredImmutable ==
  [][ ChatCompleted =>
        \A i \in 1..Len(tcMessages) :
          ~Pending(tcMessages[i]) =>
            /\ i <= Len(tcMessages')
            /\ tcMessages'[i] = tcMessages[i] ]_vars

(***************************************************************************)
(* C12: StreamingChat.sendMessage appends a Pending turn and sets loading  *)
(* only in a step that hands the request envelope to an OPEN socket while  *)
(* connected; with the channel not Open a submit changes nothing.          *)
(***************************************************************************)
ChannelOpen == connected /\ sockets[wsRef].readyState = "OPEN"

C12_SendOnlyWhenOpen ==
  [][ (root = "StreamingChat" /\
       (Len(scMessages') > Len(scMessages) \/ (scLoading' /\ ~scLoading)))
        => /\ ChannelOpen
           /\ scSent' = Append(scSent, [type |-> "chat_message",
                                        content |-> scMessages'[Len(scMessages')].content,
                                        provider |-> "openai", model |-> "gpt-4",
                                        use_agents |-> TRUE, session_id |-> "default"]) ]_vars

(***************************************************************************)
(* C13: a WebSocket frame that is not JSON is dropped: its delivery leaves *)
(* transcript, loading, viewport, ledger, input and connection flag as     *)
(* they were, and an ai_response delivered after such a frame still fills  *)
(* the last turn, clears loading, shows the viewport on needs_browser and  *)
(* records a created project.                                              *)
(***************************************************************************)
\* ws.onmessage runs for a frame that is not JSON in this step
MalformedDelivered ==
  /\ root = "StreamingChat"
  /\ wire # <<>>
  /\ Head(wire).frame = Malformed
  /\ wire' = Tail(wire)
  /\ UNCHANGED <<sockets, wsRef, scMounted>>

C13_MalformedDropped ==
  [][ /\ MalformedDelivered =>
           UNCHANGED <<scMessages, scLoading, scShowBrowser, scProjects, scInput,
                       connected>>
      /\ (AiDelivered /\ lastError > 0 /\ scMessages # <<>>) =>
           LET data == Head(wire).frame
               n == Len(scMessages)
           IN  /\ Len(scMessages') = n
               /\ scMessages'[n].response = data.content
               /\ scMessages'[n].screenshot = data.screenshot
               /\ scMessages'[n].project_created = data.project_created
               /\ scLoading' = FALSE
               /\ Truthy(data.needs_browser) => scShowBrowser'
               /\ Truthy(data.project_created) =>
                    scProjects' = Append(scProjects, data.project_created.v) ]_vars

\* a frame was dropped before a turn was submitted, and that turn has its
\* response
C13_Witness ==
  /\ root = "StreamingChat"
  /\ lastError > 0
  /\ \E i \in 1..Len(scMessages) :
       /\ scMessages[i].timestamp >= lastError
       /\ scMessages[i].response = Str("Opened")
  /\ scLoading = FALSE
  /\ scShowBrowser

(***************************************************************************)
(* C14: no completion (an ai_response handled by StreamingChat, a chat     *)
(* request of TerminalChat that succeeded or failed) takes the viewport    *)
(* from visible to Hidden.                                                 *)
(***************************************************************************)
C14_NoAutoHide ==
  [][ /\ AiDelivered => (scShowBrowser => scShowBrowser')
      /\ ChatCompleted => (Truthy(appShowBrowser) => Truthy(appShowBrowser')) ]_vars

(***************************************************************************)
(* C15: the Project Ledger only grows: in every step the ledger before is  *)
(* a prefix of the ledger after.                                           *)
(***************************************************************************)
IsPrefix(old, new) == Len(old) <= Len(new) /\ SubSeq(new, 1, Len(old)) = old

SessionEnded == root = "App" /\ sessionId' # sessionId

BrowserSignal(data) ==
  \/ Truthy(data.needs_browser)
  \/ Truthy(data.browser_use_result)
  \/ data.browser_action # null

\* C14 as the code has it: StreamingChat never hides the viewport on a
\* completion; in App a failed request leaves the viewport as it is, and a
\* 2xx answer makes it visible exactly if it carries needs_browser, a
\* browser_use_result or a browser_action other than null, hiding it otherwise
C14_HiddenOnlyWithoutSignal ==
  [][ /\ AiDelivered => (scShowBrowser => scShowBrowser')
      /\ ChatCompleted =>
           IF chatReq.state = "ok"
           THEN Truthy(appShowBrowser') = BrowserSignal(chatReq.data)
           ELSE appShowBrowser' = appShowBrowser ]_vars

\* the answer "Opened" showed the viewport and the answer "Hi" after it, which
\* carries no signal, hid it
C14_Witness ==
  /\ root = "App"
  /\ Len(tcMessages) = 2
  /\ tcMessages[1].response = Str("Opened")
  /\ tcMessages[1].timestamp = 1
  /\ tcMessages[2].response = Str("Hi")
  /\ tcMessages[2].timestamp = 2
  /\ ~Truthy(appShowBrowser)

(***************************************************************************)
(* C16: no state update throws: whenever TerminalChat applies the result   *)
(* or the failure of a chat request the transcript is not empty, so the    *)
(* last turn its updater reads exists and the tree stays mounted.          *)
(***************************************************************************)
\* sendMessage goes on after its fetch settled in this step
ChatApplied ==
  /\ root = "App"
  /\ chatReq.state \in {"ok"} \cup FetchErrors
  /\ chatReq'.state = "idle"

C16_NoUpdaterThrows ==
  [][ ChatApplied => (tcMessages # <<>> /\ ~crashed') ]_vars

(***************************************************************************)
(* C17: a turn becomes Failed only in the step that applies the failure    *)
(* (an answer that is not 2xx, or a rejected fetch) of its own request,    *)
(* and it was Pending until then; no other step makes a turn Failed.       *)
(***************************************************************************)
\* the turn shows the error text of sendMessage's catch path
Failed(m) == m.response = ErrorText

C17_FailedOnlyByOwnRequest ==
  [][ \A i \in 1..Len(tcMessages') :
        (Failed(tcMessages'[i]) /\ ~(i <= Len(tcMessages) /\ Failed(tcMessages[i])))
          => /\ ChatApplied
             /\ chatReq.state \in FetchErrors
             /\ i <= Len(tcMessages)
             /\ Pending(tcMessages[i])
             /\ tcMessages[i].content = chatReq.body.message ]_vars

(***************************************************************************)
(* C18: every REST call that fails (create-session on auto-start or on     *)
(* Start Session, chat, chat-history, vnc-info) leaves the error banner    *)
(* set, and the loading flag of its caller reset.                          *)
(***************************************************************************)
\* autoStartSession / createSession runs on after its fetch in this step
CreateSettled == root = "App" /\ createReq.state = "sent" /\ createReq'.state = "idle"

\* loadVNCInfo runs on after its fetch in this step
VncSettled == root = "App" /\ vncReq.state = "sent" /\ vncReq'.state = "idle"

C18_EveryFailureSetsBanner ==
  [][ /\ (CreateSettled /\ createReq'.result # "ok") =>
           (Truthy(error') /\ ~appLoading')
      /\ (VncSettled /\ vncReq'.result # "ok") => Truthy(error')
      /\ (ChatApplied /\ chatReq.state \in FetchErrors) =>
           (Truthy(error') /\ ~tcLoading')
      /\ \A i \in 1..Len(historyReqs) :
           (HistoryLoaded(i) /\ historyReqs[i].state \in FetchErrors) =>
             Truthy(error') ]_vars

\* the Start Session button is pressed in this step
StartPressed == root = "App" /\ createReq.state = "idle" /\ createReq'.state = "sent"

\* C18 as the code has it: the banner is set only by a failed create-session
\* call of the Start Session button; a failed auto-start, chat, chat-history
\* or vnc-info call leaves the banner as it is; the banner is cleared only by
\* its dismiss button or by the next Start Session; App's loading flag is
\* reset when a create-session call settles, failed or not
C18_BannerOnlyForStartSession ==
  [][ /\ CreateSettled =>
           /\ ~appLoading'
           /\ IF createReq.kind = "createSession" /\ createReq'.result # "ok"
              THEN Truthy(error')
              ELSE error' = error
      /\ (VncSettled \/ ChatApplied \/ \E i \in 1..Len(historyReqs) : HistoryLoaded(i))
           => error' = error
      /\ (Truthy(error) /\ ~Truthy(error')) =>
           \/ StartPressed
           \/ UNCHANGED <<sessionId, wsEndpoint, screenshot, appLoading, appShowBrowser,
                          appProjects, browserUseResult, createReq, vncUrl, vncReq,
                          crashed, tcVars>> ]_vars

\* Start Session failed and the banner is up with loading reset, while the
\* vnc-info call and a chat call have failed as well
C18_Witness ==
  /\ root = "App"
  /\ createReq = [state |-> "idle", kind |-> "createSession", result |-> "http_error"]
  /\ vncReq = [state |-> "idle", result |-> "http_error"]
  /\ Truthy(error)
  /\ ~appLoading
  /\ \E i \in 1..Len(tcMessages) : Failed(tcMessages[i])

(***************************************************************************)
(* C19: a completion whose event carries needs_browser = true or a         *)
(* non-empty screenshot makes a Hidden viewport visible, in StreamingChat  *)
(* and in App.                                                             *)
(***************************************************************************)
\* the event asks for the viewport: needs_browser is true or it has a
\* screenshot that is not empty
WantsViewport(data) ==
  \/ data.needs_browser = Bool(TRUE)
  \/ (data.screenshot.t = "string" /\ data.screenshot.v # "")

C19_ShownOnSignalOrScreenshot ==
  [][ /\ (AiDelivered /\ ~scShowBrowser /\ WantsViewport(Head(wire).frame))
           => scShowBrowser'
      /\ (ChatCompleted /\ chatReq.state = "ok" /\ ~Truthy(appShowBrowser)
            /\ WantsViewport(chatReq.data))
           => Truthy(appShowBrowser') ]_vars

\* C19 as the code has it: a screenshot alone shows nothing.  A completion
\* makes a Hidden viewport of StreamingChat visible exactly if needs_browser
\* is truthy, and a Hidden viewport of App exactly if the answer carries
\* needs_browser, a browser_use_result or a browser_action other than null
C19_ShownOnSignalOnly ==
  [][ /\ (AiDelivered /\ ~scShowBrowser)
           => (scShowBrowser' <=> Truthy(Head(wire).frame.needs_browser))
      /\ (ChatCompleted /\ chatReq.state = "ok" /\ ~Truthy(appShowBrowser))
           => (Truthy(appShowBrowser') <=> BrowserSignal(chatReq.data)) ]_vars

\* the last turn got an answer with a screenshot and needs_browser = false,
\* and the viewport is Hidden
C19_Witness ==
  \/ /\ root = "StreamingChat"
     /\ scMessages # <<>>
     /\ scMessages[Len(scMessages)].screenshot = Str("png2")
     /\ scMessages[Len(scMessages)].needs_browser = Bool(FALSE)
     /\ ~scLoading
     /\ ~scShowBrowser
     /\ wire = <<>>
  \/ /\ root = "App"
     /\ tcMessages # <<>>
     /\ tcMessages[Len(tcMessages)].screenshot = Str("png2")
     /\ tcMessages[Len(tcMessages)].timestamp = 1
     /\ screenshot = Str("png2")
     /\ ~Truthy(appShowBrowser)

(***************************************************************************)
(* C20: whenever the viewport is visible and holds a screenshot, it is the *)
(* screenshot of the most recent turn that has a response, also while a    *)
(* newer turn is Pending; never the screenshot of an earlier turn.         *)
(***************************************************************************)
\* screenshot={messages[messages.length - 1]?.screenshot} of StreamingChat
ScViewportScreenshot(msgs) ==
  IF msgs = <<>> THEN undefined ELSE msgs[Len(msgs)].screenshot

\* the turns of a transcript that have a response
Answered(msgs) == {i \in 1..Len(msgs) : ~Pending(msgs[i])}

\* the most recent of them
LastAnswered(msgs) ==
  msgs[CHOOSE i \in Answered(msgs) : \A j \in Answered(msgs) : j <= i]

C21_StatusFollowsEndpoint ==
  (root = "App" /\ ~crashed /\ Truthy(appShowBrowser)) =>
    connectionStatus = IF Truthy(wsEndpoint) THEN "connected" ELSE "disconnected"

(***************************************************************************)
(* C22: in every state the user has an enabled action that shows the       *)
(* viewport when it is Hidden and one that hides it when it is visible.    *)
(***************************************************************************)
\* what the user can do in StreamingChat
ScUserAction ==
  \/ \E v \in Inputs : ScSetInput(v)
  \/ ScSendMessage
  \/ ScMinimize

\* what the user can do in App
AppUserAction ==
  \/ \E v \in Inputs : TcSetInput(v)
  \/ TcSendMessage
  \/ createSession
  \/ DismissError
  \/ endSession
  \/ VncToggle
  \/ VncExpandView

\* App shows the browser panel with the view embedded
AppVisible == Truthy(appShowBrowser) /\ isEmbedded

VncMinimized ==
  /\ root = "App"
  /\ Truthy(appShowBrowser) /\ Truthy(appShowBrowser')
  /\ isEmbedded /\ ~isEmbedded'

\* the user expands the minimized view in this step
VncExpanded ==
  /\ root = "App"
  /\ Truthy(appShowBrowser) /\ Truthy(appShowBrowser')
  /\ ~isEmbedded /\ isEmbedded'

C23_MinimizeExpand ==
  [][ (VncMinimized \/ VncExpanded) =>
        UNCHANGED <<appShowBrowser, vncUrl, browserUseResult, connectionStatus,
                    screenshot, tcMessages, tcInput, tcLoading, appProjects,
                    sessionId, wsEndpoint, error, appLoading, chatReq, crashed>> ]_vars

\* the view is minimized while the panel shows the stream of vnc-info
C23_Witness ==
  /\ root = "App"
  /\ ~crashed
  /\ Truthy(appShowBrowser)
  /\ ~isEmbedded
  /\ vncUrl = Str("http://vnc")
  /\ tcMessages # <<>>

(***************************************************************************)
(* C24: a view the user has minimized stays minimized through completions, *)
(* poll ticks, endpoint changes and the hiding and showing again of the    *)
(* browser panel, until the user expands it.                               *)
(***************************************************************************)
C24_MinimizedUntilExpand ==
  [][ (root = "App" /\ ~isEmbedded) => (~isEmbedded' \/ VncExpanded) ]_vars

(***************************************************************************)
(* C25: in App a 2xx chat answer with needs_browser false or absent, with  *)
(* browser_action null or absent, without screenshot and without           *)
(* browser_use_result leaves a Hidden viewport Hidden and the needsBrowser *)
(* flag of the turn it completes false.                                    *)
(***************************************************************************)
\* the answer asks for no browser
NoBrowserNeed(data) ==
  /\ ~Truthy(data.needs_browser)
  /\ data.browser_action \in {undefined, null}
  /\ ~Truthy(data.screenshot)
  /\ ~Truthy(data.browser_use_result)

C25_HiddenWhenNotNeeded ==
  [][ (ChatCompleted /\ chatReq.state = "ok" /\ NoBrowserNeed(chatReq.data)
         /\ ~Truthy(appShowBrowser))
        => /\ ~Truthy(appShowBrowser')
           /\ ~Truthy(tcMessages'[Len(tcMessages')].needsBrowser) ]_vars

(***************************************************************************)
(* C26: every request StreamingChat puts on the WebSocket is               *)
(* {type: 'chat_message', content, provider, model, use_agents,            *)
(* session_id}; its content is the trimmed input, which is the content of  *)
(* the Pending turn appended by the same submit, and its session_id is the *)
(* id of the component's session.  With an empty or whitespace-only input  *)
(* nothing is sent and no turn is appended.                                *)
(***************************************************************************)
C26_OutboundEnvelope ==
  [][ /\ scSent' # scSent =>
           /\ scSent' = Append(scSent, scSent'[Len(scSent')])
           /\ Len(scMessages') = Len(scMessages) + 1
           /\ LET p == scSent'[Len(scSent')]
                  turn == scMessages'[Len(scMessages')]
              IN  /\ DOMAIN p = {"type", "content", "provider", "model",
                                 "use_agents", "session_id"}
                  /\ p.type = "chat_message"
                  /\ p.content = Trim(scInput)
                  /\ Pending(turn)
                  /\ p.content = turn.content
                  /\ p.session_id = SessionId
      /\ (root = "StreamingChat" /\ Trim(scInput) = <<>>) =>
           /\ scSent' = scSent
           /\ Len(scMessages') = Len(scMessages) ]_vars

\* an input with surrounding blanks was submitted and sent
C26_Witness ==
  /\ root = "StreamingChat"
  /\ scSent # <<>>
  /\ scSent[1].content = <<"a">>
  /\ scMessages # <<>>
  /\ scMessages[1].content = <<"a">>

(***************************************************************************)
(* C27: in StreamingChat and in TerminalChat the loading flag is true      *)
(* exactly when the last turn of the transcript is Pending.                *)
(***************************************************************************)
\* the last turn of a transcript has no response yet
HasPending(msgs) == msgs # <<>> /\ Pending(msgs[Len(msgs)])

C27_LoadingIffPending ==
  /\ (root = "StreamingChat" /\ scMounted) => (scLoading <=> HasPending(scMessages))
  /\ (root = "App" /\ ~crashed) => (tcLoading <=> HasPending(tcMessages))

(***************************************************************************)
(* C28: the Project Ledger is exactly the sequence of the project_created  *)
(* values carried by the turns of the transcript, in turn order.           *)
(***************************************************************************)
\* the projects carried by the turns of StreamingChat's transcript
ScTurnProjects ==
  LET withProject == SelectSeq(scMessages, LAMBDA m : Truthy(m.project_created))
  IN  [i \in 1..Len(withProject) |-> withProject[i].project_created.v]

\* the projects carried by the turns of TerminalChat's transcript
TcTurnProjects ==
  LET withProject == SelectSeq(tcMessages, LAMBDA m : Truthy(m.projectCreated))
  IN  [i \in 1..Len(withProject) |-> withProject[i].projectCreated.v]

C28_LedgerIsTurnProjects ==
  /\ (root = "StreamingChat" /\ scMounted) => scProjects = ScTurnProjects
  /\ (root = "App" /\ ~crashed) => appProjects = TcTurnProjects

(***************************************************************************)
(* C29: in StreamingChat, when the backend sends exactly one ai_response   *)
(* for each chat_message it receives, the handler records every            *)
(* ai_response on the turn whose request elicited it and on no other turn, *)
(* whatever the interleaving of submits, responses, closes and reconnects. *)
(***************************************************************************)
C29_RecordedOnElicitingTurn ==
  [][ (AiDelivered /\ Head(wire).re # 0) =>
        LET data == Head(wire).frame
            id == Head(wire).re
        IN  /\ Len(scMessages') = Len(scMessages)
            /\ \E k \in DOMAIN scMessages : scMessages[k].id = id
            /\ \A k \in DOMAIN scMessages :
                 IF scMessages[k].id = id
                 THEN /\ Pending(scMessages[k])
                      /\ scMessages'[k].response = data.content
                      /\ scMessages'[k].project_created = data.project_created
                 ELSE scMessages'[k] = scMessages[k] ]_vars

\* two requests were answered, the second over a socket opened by a reconnect
C29_Witness ==
  /\ root = "StreamingChat"
  /\ Len(scMessages) = 2
  /\ \A k \in DOMAIN scMessages : ~Pending(scMessages[k])
  /\ Len(scSent) = 2
  /\ backend = <<>>
  /\ wire = <<>>
  /\ wsRef # 1

(***************************************************************************)
(* C30: in StreamingChat the connected flag is true exactly when the       *)
(* socket held in wsRef is open.                                           *)
(***************************************************************************)
C30_ConnectedIffCurrentOpen ==
  (root = "StreamingChat" /\ scMounted)
    => (connected <=> sockets[wsRef].readyState = "OPEN")

(***************************************************************************)
(* C31: in StreamingChat loading is cleared only by the handling of an     *)
(* ai_response; a close, a reconnect or a frame of another type leaves     *)
(* loading and the Pending turn as they are, so a turn Pending when the    *)
(* socket closes is still Pending after the reconnect.                     *)
(***************************************************************************)
C31_OnlyAiResponseClearsLoading ==
  [][ root = "StreamingChat" =>
        /\ (scLoading /\ ~scLoading') => AiDelivered
        /\ (~AiDelivered /\ HasPending(scMessages)) =>
             /\ scLoading' = scLoading
             /\ scMessages' = scMessages ]_vars

\* a request was sent, its socket closed, the reconnect opened, and the turn is
\* still Pending with loading set
C31_Witness ==
  /\ root = "StreamingChat"
  /\ scSent # <<>>
  /\ backend = <<>>
  /\ wire = <<>>
  /\ connected
  /\ sockets[wsRef].readyState = "OPEN"
  /\ HasPending(scMessages)
  /\ scLoading

(***************************************************************************)
(* C32: in TerminalChat, once the REST call of an accepted submit has      *)
(* settled (2xx, another status, or a network error) loading becomes false *)
(* and the chat accepts a later submit.                                    *)
(***************************************************************************)
C32_SettledSubmitUnlocks ==
  (root = "App" /\ chatReq.state \in {"ok"} \cup FetchErrors)
    ~> (root = "App" /\ ~tcLoading /\ ~crashed)

(***************************************************************************)
(* C33: in App the completion of a chat request that was submitted under   *)
(* an earlier session id changes neither the Project Ledger nor the        *)
(* viewport of the session started by End Session.                         *)
(***************************************************************************)
C33_NoEffectOfEndedSession ==
  [][ (ChatCompleted /\ chatReq.state = "ok" /\ chatReq.body.session_id # sessionId)
        => UNCHANGED <<appProjects, appShowBrowser>> ]_vars

(***************************************************************************)
(* C34: in App wsEndpoint becomes non-empty only when a create-session     *)
(* call succeeds and becomes empty only by End Session; after End Session  *)
(* only a call started by the Start Session button can fill it again; and  *)
(* a create-session request is started only while none is in flight.       *)
(***************************************************************************)
C34_EndpointOnlyInSession ==
  [][ root = "App" =>
        /\ (~Truthy(wsEndpoint) /\ Truthy(wsEndpoint')) =>
             /\ CreateSettled
             /\ createReq'.result = "ok"
             /\ sessionId > 1 => createReq.kind = "createSession"
        /\ (Truthy(wsEndpoint) /\ ~Truthy(wsEndpoint')) => SessionEnded
        /\ SessionEnded => (createReq.state = "idle" /\ ~Truthy(wsEndpoint'))
        /\ (createReq'.state = "sent" /\ createReq' # createReq) =>
             /\ createReq.state = "idle"
             /\ ~Truthy(wsEndpoint) ]_vars

\* a session was ended and the user's Start Session succeeded afterwards
C34_Witness ==
  /\ root = "App"
  /\ sessionId = 2
  /\ Truthy(wsEndpoint)
  /\ createReq = [state |-> "idle", kind |-> "createSession", result |-> "ok"]

(***************************************************************************)
(* C35: while VNCBrowserView is shown and embedded it renders the live     *)
(* stream exactly when vnc_url is known and is not the placeholder         *)
(* address; a vnc-info call that fails, answers another status or answers  *)
(* without vnc_url never makes the stream rendered.                        *)
(***************************************************************************)
\* the live stream is on screen
StreamDisplayed ==
  /\ root = "App" /\ ~crashed
  /\ Truthy(appShowBrowser)
  /\ VncContent(isEmbedded, vncUrl) = "iframe"

C35_StreamOnlyForRealUrl ==
  [][ /\ (root = "App" /\ ~crashed /\ Truthy(appShowBrowser) /\ isEmbedded) =>
           (StreamDisplayed <=> (vncUrl \notin {undefined, null, Str("")}
                                   /\ vncUrl # DefaultVncUrl))
      /\ (VncSettled /\ (vncReq'.result # "ok" \/ vncUrl' = undefined)) =>
           (StreamDisplayed' => StreamDisplayed)
      /\ (VncSettled /\ vncUrl' = undefined) => ~StreamDisplayed' ]_vars

\* the panel is shown and embedded after a 2xx vnc-info answer without vnc_url,
\* and it renders the placeholder
C35_Witness ==
  /\ root = "App" /\ ~crashed
  /\ Truthy(appShowBrowser)
  /\ isEmbedded
  /\ vncReq = [state |-> "idle", result |-> "ok"]
  /\ vncUrl = undefined
  /\ VncContent(isEmbedded, vncUrl) = "placeholder"

(***************************************************************************)
(* C36: renderMessage classifies each line by the first rule that matches: *)
(* header if the line starts and ends with '**' (shown without its first   *)
(* two and last two characters), bullet if it starts with '- ' or          *)
(* U+2022 ' ', code marker if it starts with three backticks, blank if it  *)
(* is empty after trimming, plain line otherwise; and the three copies     *)
(* return the same result for every text.                                  *)
(***************************************************************************)
\* the class of a line by the rules above, in their order
LineClass(line) ==
  CASE StartsWith(line, <<"*", "*">>) /\ EndsWith(line, <<"*", "*">>) -> "message-header"
    [] OTHER ->
  CASE StartsWith(line, <<"-", " ">>) \/ StartsWith(line, <<Bullet, " ">>) -> "message-bullet"
    [] OTHER ->
  CASE StartsWith(line, <<Backtick, Backtick, Backtick>>) -> "message-code"
    [] OTHER ->
  CASE Trim(line) = <<>> -> "br"
    [] OTHER -> "message-line"

\* a result lists the lines of `content` with their classes
Classified(result) ==
  /\ result # null
  /\ LET lines == Split(content)
     IN  /\ Len(result.v) = Len(lines)
         /\ \A i \in 1..Len(lines) :
              /\ result.v[i].className = LineClass(lines[i])
              /\ LineClass(lines[i]) = "message-header" =>
                   result.v[i].text = SubSeq(lines[i], 3, Len(lines[i]) - 2)
              /\ LineClass(lines[i]) = "message-line" => result.v[i].text = lines[i]

C36_SameClassification ==
  rendered # undefined =>
    /\ Classified(rendered.StreamingChat)
    /\ Classified(rendered.TerminalChat)
    /\ Classified(rendered.ChatInterface)
    /\ rendered.StreamingChat = rendered.TerminalChat
    /\ rendered.TerminalChat = rendered.ChatInterface

\* C36 as the code has it: the copies agree on every text that is not empty;
\* for the empty text ChatInterface returns null where the other two return
\* one blank line
C36_SameClassificationNonEmpty ==
  rendered # undefined =>
    /\ Classified(rendered.StreamingChat)
    /\ Classified(rendered.TerminalChat)
    /\ rendered.StreamingChat = rendered.TerminalChat
    /\ IF content = <<>>
       THEN /\ rendered.ChatInterface = null
            /\ rendered.TerminalChat = Obj(<<[className |-> "br", text |-> <<>>]>>)
       ELSE /\ Classified(rendered.ChatInterface)
            /\ rendered.TerminalChat = rendered.ChatInterface

\* a header line with a text was rendered by the three copies
C36_Witness ==
  /\ content = <<"*", "*", "a", "*", "*">>
  /\ rendered # undefined
  /\ rendered.ChatInterface = Obj(<<[className |-> "message-header", text |-> <<"a">>]>>)
  /\ rendered.StreamingChat = rendered.ChatInterface

====
